---- MODULE Spec2Model ----
(***************************************************************************)
(* Host / Snapshot / Cancellation protocol of the analysis core            *)
(* (mini-elp/crates/ide/src/lib.rs): AnalysisHost, Analysis, with_db.      *)
(*                                                                         *)
(* AnalysisHost owns the database; Analysis is a snapshot of it; every     *)
(* read goes through with_db, which turns a cancellation unwind into       *)
(* Err(Cancelled).  The engine behind db.snapshot(), the poll points of a  *)
(* query and the write path reached through raw_database_mut() are not     *)
(* part of lib.rs; they are modelled after sections 4 and 5 of the         *)
(* specification.                                                          *)
(***************************************************************************)
EXTENDS Integers, Sequences, FiniteSets, TLC

VARIABLES
    facts,      \* the stored facts of the Host's database: Keys -> Vals
    gen,        \* generation id of the stored facts
    flag,       \* Cancellation Flag of every generation published so far
    refs,       \* shared-reference count of the storage
    hpc,        \* position of the Host's write path: idle / waiting / mutating
    pending,    \* the change the write path in progress is applying
    issued,     \* the changes handed to the write path so far, in call order
    completed,  \* number of edits that have returned
    waited,     \* whether the edit in progress (or the last one) found readers
    snap        \* the Analysis handles, by id

vars == <<facts, gen, flag, refs, hpc, pending, issued, completed, waited, snap>>

\* ---- bounds of the model ------------------------------------------------
MaxSnaps == 2
MaxEdits == 2

\* The Host's own handle on the storage (AnalysisHost.db).
HostHold == 1

Snaps == 1..MaxSnaps
Keys == {1, 2}
\* A fact is identified here by the generation that last wrote it.
Vals == 0..MaxEdits
\* A change names the fact it modifies.
Changes == Keys
NoChange == 0

\* A query reads every stored fact once, with a poll point before each read.
QLen == Cardinality(Keys)

\* ---- stored facts -------------------------------------------------------
\* Change c applied to facts f, producing generation g.
ApplyChange(f, c, g) == IF c \in DOMAIN f THEN [f EXCEPT ![c] = g] ELSE f

\* The changes cs applied in order to facts f of generation g.
RECURSIVE ApplyAll(_, _, _)
ApplyAll(f, cs, g) ==
    IF cs = <<>> THEN f ELSE ApplyAll(ApplyChange(f, Head(cs), g + 1), Tail(cs), g + 1)

InitFacts == [k \in Keys |-> 0]

\* ---- Analysis handles ---------------------------------------------------
NoOutcome == [kind |-> "none", val |-> <<>>]

Unused == [st |-> "unused", gen |-> 0, parent |-> 0, pc |-> "idle", seen |-> {},
           vals |-> <<>>, out |-> NoOutcome, res |-> NoOutcome,
           raisedAtStart |-> FALSE]

\* What is left of handle h once it is dropped.
Dropped(h) == [Unused EXCEPT !.st = "dropped", !.gen = h.gen, !.parent = h.parent]

\* The fact the k-th read of a query looks at.
KeyOf(k) == ((k - 1) % Cardinality(Keys)) + 1

Live(s) == snap[s].st = "live"
InFlight(s) == snap[s].pc \in {"poll", "read"}
Created == {s \in Snaps : snap[s].st # "unused"}
NewId == Cardinality(Created) + 1

\* Analysis { db: <snapshot of generation g> }, made from handle p (0: the Host)
Analysis(g, p) == [Unused EXCEPT !.st = "live", !.gen = g, !.parent = p]

Init ==
    /\ facts = InitFacts
    /\ gen = 0
    /\ flag = (0 :> FALSE)
    /\ refs = HostHold
    /\ hpc = "idle"
    /\ pending = NoChange
    /\ issued = <<>>
    /\ completed = 0
    /\ waited = FALSE
    /\ snap = [s \in Snaps |-> Unused]

\* ---- AnalysisHost -------------------------------------------------------
\* analysis() handing out a handle that takes no hold on the storage.
analysis_nohold ==
    /\ hpc = "idle"
    /\ NewId \in Snaps
    /\ snap' = [snap EXCEPT ![NewId] = Analysis(gen, 0)]
    /\ UNCHANGED <<facts, gen, flag, refs, hpc, pending, issued, completed, waited>>

\* analysis() snapshotting twice and keeping one: a hold is leaked.
analysis_leak ==
    /\ hpc = "idle"
    /\ NewId \in Snaps
    /\ snap' = [snap EXCEPT ![NewId] = Analysis(gen, 0)]
    /\ refs' = refs + 2
    /\ UNCHANGED <<facts, gen, flag, hpc, pending, issued, completed, waited>>

\* analysis() handing out a handle kept from before the last edit.
analysis_stale ==
    /\ hpc = "idle"
    /\ NewId \in Snaps
    /\ snap' = [snap EXCEPT ![NewId] = Analysis(IF gen > 0 THEN gen - 1 ELSE gen, 0)]
    /\ refs' = refs + 1
    /\ UNCHANGED <<facts, gen, flag, hpc, pending, issued, completed, waited>>

\* analysis() reachable while the write path has the Host borrowed.
analysis_anytime ==
    /\ NewId \in Snaps
    /\ snap' = [snap EXCEPT ![NewId] = Analysis(gen, 0)]
    /\ refs' = refs + 1
    /\ UNCHANGED <<facts, gen, flag, hpc, pending, issued, completed, waited>>

\* analysis(&self): a new handle on the current state; db.snapshot() takes
\* one more hold on the storage.  &self cannot be borrowed while the write
\* path holds &mut self.
analysis ==
    /\ hpc = "idle"
    /\ NewId \in Snaps
    /\ snap' = [snap EXCEPT ![NewId] = Analysis(gen, 0)]
    /\ refs' = refs + 1
    /\ UNCHANGED <<facts, gen, flag, hpc, pending, issued, completed, waited>>

\* raw_database_mut(&self): handing out the database while it is borrowed.
raw_database_mut_shared == TRUE

\* raw_database_mut(&mut self): the exclusive borrow of the Host is free.
raw_database_mut == hpc = "idle"

\* ---- Analysis: clone and drop -------------------------------------------
\* clone() copying the handle without a new snapshot of the database.
clone_nohold(s) ==
    /\ Live(s)
    /\ ~InFlight(s)
    /\ NewId \in Snaps
    /\ snap' = [snap EXCEPT ![NewId] = Analysis(snap[s].gen, s)]
    /\ UNCHANGED <<facts, gen, flag, refs, hpc, pending, issued, completed, waited>>

\* clone() ending up on a later state than the handle it copies.
clone_next(s) ==
    /\ Live(s)
    /\ ~InFlight(s)
    /\ NewId \in Snaps
    /\ snap' = [snap EXCEPT ![NewId] = Analysis(snap[s].gen + 1, s)]
    /\ refs' = refs + 1
    /\ UNCHANGED <<facts, gen, flag, hpc, pending, issued, completed, waited>>

\* Clone for Analysis: self.db.snapshot(), a handle on the same state as s.
clone(s) ==
    /\ Live(s)
    /\ ~InFlight(s)
    /\ NewId \in Snaps
    /\ snap' = [snap EXCEPT ![NewId] = Analysis(snap[s].gen, s)]
    /\ refs' = refs + 1
    /\ UNCHANGED <<facts, gen, flag, hpc, pending, issued, completed, waited>>

\* A handle forgotten rather than dropped: its hold is never released.
drop_leak(s) ==
    /\ Live(s)
    /\ ~InFlight(s)
    /\ snap' = [snap EXCEPT ![s] = Dropped(@)]
    /\ UNCHANGED <<facts, gen, flag, refs, hpc, pending, issued, completed, waited>>

\* A handle released twice.
drop_double(s) ==
    /\ Live(s)
    /\ ~InFlight(s)
    /\ snap' = [snap EXCEPT ![s] = Dropped(@)]
    /\ refs' = refs - 2
    /\ UNCHANGED <<facts, gen, flag, hpc, pending, issued, completed, waited>>

\* Dropping an Analysis drops its salsa::Snapshot and releases its hold.
drop(s) ==
    /\ Live(s)
    /\ ~InFlight(s)
    /\ snap' = [snap EXCEPT ![s] = Dropped(@)]
    /\ refs' = refs - 1
    /\ UNCHANGED <<facts, gen, flag, hpc, pending, issued, completed, waited>>

\* ---- Query Boundary -----------------------------------------------------
\* with_db swallowing the cancellation: Ok with a default value.
with_db_swallow(out) ==
    CASE out.kind = "value" -> [kind |-> "Ok", val |-> out.val]
      [] out.kind = "cancel" -> [kind |-> "Ok", val |-> <<>>]
      [] OTHER -> [kind |-> "Panic", val |-> <<>>]

\* with_db discarding f's value.
with_db_unit(out) ==
    CASE out.kind = "value" -> [kind |-> "Ok", val |-> <<>>]
      [] out.kind = "cancel" -> [kind |-> "Cancelled", val |-> <<>>]
      [] OTHER -> [kind |-> "Panic", val |-> <<>>]

\* with_db catching every unwind (catch_unwind without the downcast).
with_db_catch_all(out) ==
    CASE out.kind = "value" -> [kind |-> "Ok", val |-> out.val]
      [] OTHER -> [kind |-> "Cancelled", val |-> <<>>]

\* with_db: Cancelled::catch(|| f(&self.db)).  f's value becomes Ok(value),
\* the cancellation unwind becomes Err(Cancelled), any other unwind goes on
\* to the caller.
with_db(out) ==
    CASE out.kind = "value" -> [kind |-> "Ok", val |-> out.val]
      [] out.kind = "cancel" -> [kind |-> "Cancelled", val |-> <<>>]
      [] OTHER -> [kind |-> "Panic", val |-> <<>>]

\* An accessor that asks the engine to cancel before it evaluates.
query_reqcancel(s) ==
    /\ Live(s)
    /\ ~InFlight(s)
    /\ snap' = [snap EXCEPT ![s] = [@ EXCEPT !.pc = "poll", !.seen = {}, !.vals = <<>>,
                                             !.out = NoOutcome, !.res = NoOutcome,
                                             !.raisedAtStart = flag[snap[s].gen]]]
    /\ flag' = [flag EXCEPT ![snap[s].gen] = TRUE]
    /\ UNCHANGED <<facts, gen, refs, hpc, pending, issued, completed, waited>>

\* A read accessor (line_index, module_ast, ...): self.with_db(|db| query).
query(s) ==
    /\ Live(s)
    /\ ~InFlight(s)
    /\ snap' = [snap EXCEPT ![s] = [@ EXCEPT !.pc = "poll", !.seen = {}, !.vals = <<>>,
                                             !.out = NoOutcome, !.res = NoOutcome,
                                             !.raisedAtStart = flag[snap[s].gen]]]
    /\ UNCHANGED <<facts, gen, flag, refs, hpc, pending, issued, completed, waited>>

\* eqwalizer(&self) -> &Eqwalizer: self.db.eqwalizer(), a reference into the
\* database handed to the caller without with_db and without a poll point.
eqwalizer(s) ==
    /\ Live(s)
    /\ ~InFlight(s)
    /\ snap' = [snap EXCEPT ![s] = [@ EXCEPT !.pc = "direct", !.seen = {}, !.vals = <<>>,
                                             !.out = NoOutcome, !.res = NoOutcome,
                                             !.raisedAtStart = FALSE]]
    /\ UNCHANGED <<facts, gen, flag, refs, hpc, pending, issued, completed, waited>>

\* ---- Query Engine (specification 4.3, 5) --------------------------------
\* An accessor calling f(&self.db) without Cancelled::catch: every unwind,
\* the cancellation included, escapes to the caller.
Finish_nocatch(h, out) ==
    [h EXCEPT !.pc = "done", !.out = out,
              !.res = IF out.kind = "value" THEN [kind |-> "Ok", val |-> out.val]
                      ELSE [kind |-> "Panic", val |-> <<>>]]

\* The accessor returns what with_db made of f's outcome.
Finish(h, out) == [h EXCEPT !.pc = "done", !.out = out, !.res = with_db(out)]

\* Poll point: with the flag of the handle's generation raised the query
\* unwinds with Cancelled, otherwise it goes on to its next read.
Poll(s) ==
    /\ Live(s)
    /\ snap[s].pc = "poll"
    /\ snap' = [snap EXCEPT ![s] =
                  IF flag[snap[s].gen]
                  THEN Finish(@, [kind |-> "cancel", val |-> <<>>])
                  ELSE [@ EXCEPT !.pc = "read"]]
    /\ UNCHANGED <<facts, gen, flag, refs, hpc, pending, issued, completed, waited>>

\* One read of the stored facts; the query completes after QLen reads.
Read(s) ==
    /\ Live(s)
    /\ snap[s].pc = "read"
    /\ LET k == Len(snap[s].vals) + 1
           h == [snap[s] EXCEPT !.vals = Append(@, facts[KeyOf(k)]), !.seen = @ \cup {gen}]
       IN  snap' = [snap EXCEPT ![s] =
                      IF k = QLen
                      THEN Finish(h, [kind |-> "value", val |-> h.vals])
                      ELSE [h EXCEPT !.pc = "poll"]]
    /\ UNCHANGED <<facts, gen, flag, refs, hpc, pending, issued, completed, waited>>

\* A failure of the computation that is not a cancellation.
Fail(s) ==
    /\ Live(s)
    /\ snap[s].pc = "read"
    /\ snap' = [snap EXCEPT ![s] = Finish(@, [kind |-> "panic", val |-> <<>>])]
    /\ UNCHANGED <<facts, gen, flag, refs, hpc, pending, issued, completed, waited>>

\* ---- write path (specification 4.1, apply_edit) --------------------------
\* An edit begun without signalling cancellation.
BeginEdit_noraise(c) ==
    /\ raw_database_mut
    /\ Len(issued) < MaxEdits
    /\ issued' = Append(issued, c)
    /\ pending' = c
    /\ hpc' = "waiting"
    /\ waited' = (refs # HostHold)
    /\ UNCHANGED <<facts, gen, flag, refs, completed, snap>>

\* (a) raise the Cancellation Flag of the current generation
BeginEdit(c) ==
    /\ raw_database_mut
    /\ Len(issued) < MaxEdits
    /\ issued' = Append(issued, c)
    /\ pending' = c
    /\ flag' = [flag EXCEPT ![gen] = TRUE]
    /\ hpc' = "waiting"
    /\ waited' = (refs # HostHold)
    /\ UNCHANGED <<facts, gen, refs, completed, snap>>

\* (b) exclusive access once the count is down to the Host's own hold
Acquire ==
    /\ hpc = "waiting"
    /\ refs = HostHold
    /\ hpc' = "mutating"
    /\ UNCHANGED <<facts, gen, flag, refs, pending, issued, completed, waited, snap>>

\* Publishing the next generation with the old flag object.
Mutate_keepflag ==
    /\ hpc = "mutating"
    /\ facts' = ApplyChange(facts, pending, gen + 1)
    /\ gen' = gen + 1
    /\ flag' = (gen + 1 :> flag[gen]) @@ flag
    /\ completed' = completed + 1
    /\ pending' = NoChange
    /\ hpc' = "idle"
    /\ UNCHANGED <<refs, issued, waited, snap>>

\* (c) mutate in place, bump the generation, install a fresh lowered flag
Mutate ==
    /\ hpc = "mutating"
    /\ facts' = ApplyChange(facts, pending, gen + 1)
    /\ gen' = gen + 1
    /\ flag' = (gen + 1 :> FALSE) @@ flag
    /\ completed' = completed + 1
    /\ pending' = NoChange
    /\ hpc' = "idle"
    /\ UNCHANGED <<refs, issued, waited, snap>>

Next ==
    \/ analysis
    \/ \E s \in Snaps : clone(s)
    \/ \E s \in Snaps : drop(s)
    \/ \E s \in Snaps : query(s)
    \/ \E s \in Snaps : eqwalizer(s)
    \/ \E s \in Snaps : Poll(s)
    \/ \E s \in Snaps : Read(s)
    \/ \E s \in Snaps : Fail(s)
    \/ \E c \in Changes : BeginEdit(c)
    \/ Acquire
    \/ Mutate

Spec == Init /\ [][Next]_vars

\* Readers that keep the polling contract: every query in flight reaches its
\* next poll point or end, every handle not running a query is released,
\* and the waiting Host is scheduled.
LiveSpec ==
    /\ Spec
    /\ \A s \in Snaps : WF_vars(Poll(s) \/ Read(s) \/ Fail(s))
    /\ \A s \in Snaps : SF_vars(drop(s))
    /\ WF_vars(Acquire)
    /\ WF_vars(Mutate)

\* A query may stay between two poll points for ever: only the Host is
\* scheduled fairly.
HostFairSpec ==
    /\ Spec
    /\ WF_vars(Acquire)
    /\ WF_vars(Mutate)

\* Every query polls as contracted and the Host is scheduled, but a reader
\* may keep a handle for as long as it likes.
PollFairSpec ==
    /\ Spec
    /\ \A s \in Snaps : WF_vars(Poll(s) \/ Read(s) \/ Fail(s))
    /\ WF_vars(Acquire)
    /\ WF_vars(Mutate)

TypeOK ==
    /\ facts \in [Keys -> Vals]
    /\ gen \in 0..MaxEdits
    /\ DOMAIN flag = 0..gen
    /\ refs \in 0..(HostHold + MaxSnaps)
    /\ hpc \in {"idle", "waiting", "mutating"}
    /\ completed \in 0..MaxEdits
    /\ Len(issued) <= MaxEdits
    /\ waited \in BOOLEAN

\* ==== Claims ==============================================================

LiveSnaps == {s \in Snaps : Live(s)}

\* ---- C1 ------------------------------------------------------------------
GenFixed ==
    \A s \in Snaps : (Live(s) /\ snap'[s].st = "live") => snap'[s].gen = snap[s].gen

OneGeneration ==
    \A s \in Snaps :
        /\ Live(s) => snap[s].seen \subseteq {snap[s].gen}
        /\ snap[s].res.kind = "Ok" => snap[s].seen = {snap[s].gen}

\* C1: the generation of a handle never changes while it is live, every read
\* of a query is a read of the handle's generation, and a query that returns
\* Ok has read facts of exactly that one generation.
C1_SingleGeneration == [](OneGeneration) /\ [][GenFixed]_vars

\* A query that completed with Ok although an edit began while it ran.
C1_Witness ==
    \E s \in Snaps :
        /\ snap[s].res.kind = "Ok"
        /\ ~snap[s].raisedAtStart
        /\ flag[snap[s].gen]
        /\ hpc = "waiting"

\* ---- C2 ------------------------------------------------------------------
Mutation == facts' # facts \/ gen' # gen

\* C2: every step that changes the stored facts or the generation starts in
\* a state where the reference count equals the Host's own hold, no handle
\* is live and no query is in flight.
C2_ExclusiveMutation ==
    [][Mutation => (refs = HostHold /\ LiveSnaps = {} /\ \A s \in Snaps : ~InFlight(s))]_vars

\* The Host holds exclusive access after having waited for readers.
C2_Witness == hpc = "mutating" /\ waited /\ \E s \in Snaps : snap[s].st = "dropped"

\* ---- C3 ------------------------------------------------------------------
Publishes == (hpc # "idle" /\ hpc' = "idle") => (gen' = gen + 1 /\ completed' = completed + 1)

ResultKept ==
    \A s \in Snaps :
        (Live(s) /\ snap[s].pc = "done" /\ snap'[s].pc = "done") => snap'[s].res = snap[s].res

NoSuccessAfterRaise ==
    \A s \in Snaps :
        snap[s].raisedAtStart =>
            /\ snap[s].res.kind # "Ok"
            /\ snap[s].pc = "done" => snap[s].res.kind = "Cancelled"

\* C4: a query started on a handle whose generation's flag is already raised
\* never returns Ok and ends Cancelled; a result that was returned is not
\* changed by later steps (a raise included).
C4_NoSuccessAfterRaise == [](NoSuccessAfterRaise) /\ [][ResultKept]_vars

\* A clone made after the raise has had its query cancelled while another
\* handle keeps the Ok it got before.
C4_Witness ==
    \E s, t \in Snaps :
        /\ snap[s].raisedAtStart /\ snap[s].res.kind = "Cancelled" /\ snap[s].parent # 0
        /\ t # s /\ snap[t].res.kind = "Ok"

\* ---- C5 ------------------------------------------------------------------
FlagStep ==
    /\ \A g \in DOMAIN flag : g \in DOMAIN flag' /\ (flag[g] => flag'[g])
    /\ \A g \in DOMAIN flag' \ DOMAIN flag : ~flag'[g]

\* C5: no step lowers a raised flag or forgets a flag, and a generation
\* published by a step starts with its flag lowered.
C5_FlagMonotone == [][FlagStep]_vars

\* Generation 0 stays raised while a later generation's flag is lowered.
C5_Witness == gen >= 1 /\ flag[0] /\ ~flag[gen]

\* ---- C6 ------------------------------------------------------------------
BoundaryOutcome ==
    \A s \in Snaps :
        LET h == snap[s] IN
        /\ h.res.kind = "Ok" <=> h.out.kind = "value"
        /\ h.res.kind = "Ok" => (h.res.val = h.vals /\ Len(h.vals) = QLen)
        /\ h.res.kind = "Cancelled" <=> h.out.kind = "cancel"
        /\ h.out.kind = "cancel" => flag[h.gen]

CancelledLeavesState ==
    \A s \in Snaps :
        (snap[s].res.kind # "Cancelled" /\ snap'[s].res.kind = "Cancelled") =>
            /\ UNCHANGED <<facts, gen, flag, refs, hpc>>
            /\ snap'[s].st = snap[s].st /\ snap'[s].gen = snap[s].gen
            /\ \A o \in Snaps \ {s} : snap'[o] = snap[o]

\* C6: with_db returns Ok, carrying all of f's reads, exactly when f ran to
\* completion, and Cancelled exactly when f unwound at a poll point, which
\* happens only with the flag of the handle's generation raised; the step
\* that returns Cancelled changes neither the storage, the count, the flags,
\* the handle's generation nor any other handle.
C6_BoundaryOutcome == [](BoundaryOutcome) /\ [][CancelledLeavesState]_vars

\* On one generation a query was cancelled at its second poll point while
\* another handle's query had run to completion.
C6_Witness ==
    \E s, t \in Snaps :
        /\ snap[s].res.kind = "Cancelled" /\ Len(snap[s].vals) = 1
        /\ snap[t].res.kind = "Ok" /\ snap[t].res.val = snap[t].vals
        /\ snap[s].gen = snap[t].gen

\* ---- C7 ------------------------------------------------------------------
\* C7: a failure of f that is not a cancellation is reported neither as
\* Cancelled nor as Ok; it reaches the caller as a failure of its own kind.
C7_FailurePropagates ==
    \A s \in Snaps :
        /\ snap[s].out.kind = "panic" => snap[s].res.kind = "Panic"
        /\ snap[s].res.kind = "Panic" => snap[s].out.kind = "panic"

\* f failed while the flag of its generation was raised.
C7_Witness ==
    \E s \in Snaps : snap[s].out.kind = "panic" /\ flag[snap[s].gen] /\ Live(s)

\* ---- C8 ------------------------------------------------------------------
FromHost(s) == snap[s].st = "unused" /\ snap'[s].st = "live" /\ snap'[s].parent = 0

SnapshotStep ==
    \A s \in Snaps :
        FromHost(s) =>
            /\ snap'[s].gen = gen
            /\ ~flag[gen]
            /\ refs' = refs + 1
            /\ UNCHANGED <<facts, gen, flag>>

\* C8: analysis() can be taken whenever the Host is not borrowed by the write
\* path; the handle it returns is of the Host's current generation, the
\* count goes up by exactly one, and facts, generation and flags stay as
\* they were.
C8_SnapshotFrame ==
    /\ []((hpc = "idle" /\ NewId \in Snaps) => ENABLED analysis)
    /\ [][SnapshotStep]_vars

\* A handle obtained from the Host after an edit, of the new generation.
C8_Witness ==
    \E s \in Snaps : Live(s) /\ snap[s].parent = 0 /\ snap[s].gen >= 1 /\ refs = HostHold + 1

\* ---- C9 ------------------------------------------------------------------
\* C9: the reference count is the Host's own hold plus the number of live
\* handles, clones included; it never goes below the Host's hold and is
\* back at it once every handle is dropped.
C9_ExactCount ==
    /\ refs = HostHold + Cardinality(LiveSnaps)
    /\ refs >= HostHold
    /\ LiveSnaps = {} => refs = HostHold

\* A handle and its clone have both been dropped.
C9_Witness ==
    \E s \in Snaps :
        /\ snap[s].st = "dropped" /\ snap[s].parent # 0
        /\ snap[snap[s].parent].st = "dropped"
        /\ refs = HostHold

\* ---- C10 -----------------------------------------------------------------
\* C10: at most one issued edit is not yet completed, and it is the one the
\* write path holds; the stored facts are the first `completed` issued
\* changes applied in issue order, and the generation has advanced once per
\* completed edit.
C10_EditsInOrder ==
    /\ completed <= Len(issued) /\ Len(issued) <= completed + 1
    /\ hpc = "idle" <=> Len(issued) = completed
    /\ hpc # "idle" => pending = issued[Len(issued)]
    /\ gen = completed
    /\ facts = ApplyAll(InitFacts, SubSeq(issued, 1, completed), 0)

\* Two edits of the same fact have completed: the second one's value stands.
C10_Witness ==
    /\ completed = 2 /\ hpc = "idle"
    /\ issued[1] = issued[2]
    /\ facts[issued[2]] = 2

\* ---- C11 -----------------------------------------------------------------
\* A step of a read accessor: a handle stays live and its position changes.
AccessorStep(s) == Live(s) /\ snap'[s].st = "live" /\ snap'[s].pc # snap[s].pc

DirectAccess(s) == snap[s].pc # "direct" /\ snap'[s].pc = "direct"

\* C11 as claimed: no accessor hands out direct access to the database while
\* the flag of the handle's generation is raised.
C11_AllThroughBoundary ==
    [][\A s \in Snaps : (Live(s) /\ DirectAccess(s)) => ~flag[snap[s].gen]]_vars

ThroughBoundary ==
    \A s \in Snaps :
        LET h == snap[s] IN
        /\ (h.pc = "done" /\ h.out.kind = "cancel") => h.res.kind = "Cancelled"
        /\ (h.pc = "done" /\ h.raisedAtStart) => h.res.kind = "Cancelled"
        /\ h.pc = "done" => h.res.kind \in {"Ok", "Cancelled", "Panic"}
        /\ h.pc = "direct" => (h.res = NoOutcome /\ h.out = NoOutcome)

AccessorsReadOnly ==
    \A s \in Snaps :
        AccessorStep(s) =>
            /\ UNCHANGED <<facts, gen, flag, refs, hpc, pending, issued, completed>>
            /\ \A o \in Snaps \ {s} : snap'[o] = snap[o]

\* C11 amended: every accessor that returns a Cancellable goes through
\* with_db, so a cancellation unwind always comes back as Cancelled and a
\* call made with the flag raised ends Cancelled; eqwalizer() alone returns
\* direct access and no Cancellable; no accessor step changes the stored
\* facts, the generation, the flags, the count or another handle.
C11_CancellableThroughBoundary == [](ThroughBoundary) /\ [][AccessorsReadOnly]_vars

\* With the flag raised one handle got Cancelled from an accessor and another
\* holds the reference eqwalizer() returned.
C11_Witness ==
    \E s, t \in Snaps :
        /\ Live(s) /\ snap[s].pc = "done" /\ snap[s].raisedAtStart
        /\ snap[s].res.kind = "Cancelled"
        /\ Live(t) /\ snap[t].pc = "direct" /\ flag[snap[t].gen]

\* ---- C12 -----------------------------------------------------------------
CancelledAtNextPoll ==
    \A s \in Snaps :
        (Live(s) /\ snap[s].pc = "poll" /\ flag[snap[s].gen] /\ snap'[s] # snap[s]) =>
            (snap'[s].pc = "done" /\ snap'[s].res.kind = "Cancelled")

FreshAfterEdit ==
    \A s \in Snaps :
        FromHost(s) => (snap'[s].gen = completed /\ snap'[s].gen = gen /\ ~flag[gen])

SucceedsUnlessEdit ==
    \A s \in Snaps :
        (Live(s) /\ snap[s].pc = "done" /\ ~flag[snap[s].gen]) =>
            (snap[s].res.kind = "Ok" \/ snap[s].out.kind = "panic")

\* C12: a query that stands at a poll point with its generation's flag raised
\* leaves it Cancelled; a handle taken from the Host after k edits have
\* returned is of generation k, whose flag is lowered; and a query that has
\* ended on a handle whose flag is still lowered has ended Ok, unless the
\* computation itself failed.
C12_ScenarioA == [](SucceedsUnlessEdit) /\ [][CancelledAtNextPoll /\ FreshAfterEdit]_vars

\* After an edit that had to wait for a generation-0 reader, a handle taken
\* from the Host is of the new generation and its query returned Ok.
C12_Witness ==
    \E s, t \in Snaps :
        /\ Live(s) /\ snap[s].parent = 0 /\ snap[s].gen = completed /\ completed >= 1
        /\ snap[s].res.kind = "Ok" /\ ~flag[snap[s].gen]
        /\ snap[t].st = "dropped" /\ snap[t].gen < snap[s].gen /\ waited

\* ---- C13 -----------------------------------------------------------------
GenState(g) == IF g < gen THEN "Superseded" ELSE IF flag[g] THEN "Cancelling" ELSE "Active"

Forward ==
    \A g \in DOMAIN flag :
        /\ g \in DOMAIN flag'
        /\ \/ GenState(g)' = GenState(g)
           \/ GenState(g) = "Active" /\ GenState(g)' = "Cancelling"
           \/ GenState(g) = "Cancelling" /\ GenState(g)' = "Superseded"

NewActive ==
    \A g \in DOMAIN flag' \ DOMAIN flag : g = gen' /\ g = gen + 1 /\ GenState(g)' = "Active"

OneCurrent ==
    /\ DOMAIN flag = 0..gen
    /\ \A g \in DOMAIN flag : g < gen => flag[g]

\* C13: the generations published are 0..gen with gen the only one that is
\* not Superseded, every Superseded one keeps its flag raised, and a step
\* moves a generation only Active -> Cancelling or Cancelling -> Superseded;
\* a generation that appears is the new current one and Active.
C13_OneDirection == [](OneCurrent) /\ [][Forward /\ NewActive]_vars

\* Generation 0 Superseded, generation 1 Cancelling.
C13_Witness == gen = 1 /\ GenState(0) = "Superseded" /\ GenState(1) = "Cancelling"

\* ---- C14 -----------------------------------------------------------------
RaisedOnlyByEdit ==
    \A g \in DOMAIN flag :
        (~flag[g] /\ g \in DOMAIN flag' /\ flag'[g]) =>
            /\ g = gen
            /\ hpc = "idle" /\ hpc' = "waiting"
            /\ Len(issued') = Len(issued) + 1
            /\ snap' = snap /\ refs' = refs

ReadersLeaveFlags == (snap' # snap) => flag' = flag

\* C14: a flag goes from lowered to raised only in the step that begins an
\* edit, for the current generation; every step that creates, clones, drops
\* or advances a handle leaves all flags as they are.
C14_RaisedOnlyByEdit == [][RaisedOnlyByEdit /\ ReadersLeaveFlags]_vars

\* The Host has raised the flag and a reader's query has been cancelled by it.
C14_Witness ==
    /\ hpc = "waiting" /\ flag[gen]
    /\ \E s \in Snaps : Live(s) /\ snap[s].res.kind = "Cancelled" /\ ~snap[s].raisedAtStart

\* ---- C15 -----------------------------------------------------------------
NoReadersEdit ==
    /\ (hpc # "idle" /\ ~waited) => (refs = HostHold /\ LiveSnaps = {})
    /\ (hpc = "waiting" /\ ~waited) => ENABLED Acquire
    /\ hpc = "mutating" => ENABLED Mutate

BeginsUnblocked ==
    (hpc = "idle" /\ hpc' = "waiting") => (waited' <=> LiveSnaps # {})

\* C15: an edit begun with no live handle has not waited: from its start to
\* its completion the count is the Host's own hold, no handle is live, and
\* the step that acquires exclusivity and the step that mutates are enabled.
C15_NoReadersNoWait == [](NoReadersEdit) /\ [][BeginsUnblocked]_vars

\* An edit begun with no handle outstanding has completed.
C15_Witness == hpc = "idle" /\ completed >= 1 /\ ~waited /\ refs = HostHold

\* ---- C16 -----------------------------------------------------------------
BlockedByQuery ==
    \A s \in Snaps :
        (Live(s) /\ InFlight(s)) =>
            /\ hpc # "mutating"
            /\ refs > HostHold
            /\ ~ENABLED Acquire

StuckQueryStuckHost ==
    \A s \in Snaps :
        (Live(s) /\ InFlight(s) /\ snap'[s] = snap[s]) =>
            /\ gen' = gen /\ completed' = completed /\ facts' = facts
            /\ hpc = "waiting" => hpc' = "waiting"

\* C16: while a query is in flight the Host's acquire step is disabled, and
\* no step that leaves that query where it is completes an edit or advances
\* the generation; so in the behaviour of HostFairSpec where the query takes
\* no further step, the Host that began an edit waits for ever.
C16_NeverPollingBlocks == [](BlockedByQuery) /\ [][StuckQueryStuckHost]_vars

\* The Host waits with the flag raised on a query that has not polled since.
C16_Witness ==
    /\ hpc = "waiting" /\ waited
    /\ \E s \in Snaps : Live(s) /\ InFlight(s) /\ flag[snap[s].gen] /\ ~snap[s].raisedAtStart

\* ---- C17 -----------------------------------------------------------------
FromClone(s) == snap[s].st = "unused" /\ snap'[s].st = "live" /\ snap'[s].parent # 0

CloneStep ==
    \A s \in Snaps :
        FromClone(s) =>
            LET p == snap'[s].parent IN
            /\ Live(p)
            /\ snap'[s].gen = snap[p].gen
            /\ snap'[s].gen <= gen
            /\ UNCHANGED <<facts, gen, flag, hpc>>

ClonesShare ==
    \A s \in Snaps :
        (snap[s].st # "unused" /\ snap[s].parent # 0) =>
            /\ snap[s].gen = snap[snap[s].parent].gen
            /\ snap[s].gen \in DOMAIN flag
            /\ (snap[s].pc = "done" /\ snap[s].raisedAtStart) => snap[s].res.kind = "Cancelled"

\* C17: a clone is of the generation of the handle it was made from, never
\* of a later one, whatever the Host is doing, and so is bound to the same
\* flag: a query begun on a clone whose flag is raised ends Cancelled.
C17_CloneSameGeneration == [](ClonesShare) /\ [][CloneStep]_vars

\* While the Host waits, a cancelled handle has a clone that is cancelled too.
C17_Witness ==
    \E s \in Snaps :
        /\ Live(s) /\ snap[s].parent # 0 /\ hpc = "waiting"
        /\ snap[s].raisedAtStart /\ snap[s].res.kind = "Cancelled"
        /\ Live(snap[s].parent) /\ snap[snap[s].parent].res.kind = "Cancelled"

\* ---- C18 -----------------------------------------------------------------
\* C18: every live handle is of the Host's current generation; no live
\* handle is of a Superseded generation.
C18_NoLiveSuperseded ==
    \A s \in Snaps : Live(s) => (snap[s].gen = gen /\ GenState(snap[s].gen) # "Superseded")

\* A handle of the new generation is live after one of the old was dropped.
C18_Witness ==
    \E s, t \in Snaps :
        /\ Live(s) /\ snap[s].gen = gen /\ gen >= 1
        /\ snap[t].st = "dropped" /\ snap[t].gen < gen

\* ---- C19 -----------------------------------------------------------------
HeldBlocks ==
    (hpc = "waiting" /\ \E s \in Snaps : Live(s) /\ ~InFlight(s)) =>
        (refs > HostHold /\ ~ENABLED Acquire)

CancelKeepsHold ==
    \A s \in Snaps :
        (snap[s].res.kind # "Cancelled" /\ snap'[s].res.kind = "Cancelled") =>
            (snap'[s].st = "live" /\ refs' = refs)

ReleasedOnlyByDrop ==
    refs' < refs => (refs' = refs - 1 /\ \E s \in Snaps : Live(s) /\ snap'[s].st = "dropped")

HeldStaysBlocked ==
    (hpc = "waiting" /\ \E s \in Snaps : Live(s) /\ snap'[s].st = "live") =>
        (hpc' = "waiting" /\ gen' = gen)

\* C19: the step that cancels a query keeps the handle live and the count
\* unchanged; the count goes down only by the drop of a handle, one at a
\* time; and while the Host waits and a handle that runs no query is held,
\* the acquire step is disabled and stays so over every step that keeps a
\* handle live.
C19_HeldSnapshotBlocks ==
    [](HeldBlocks) /\ [][CancelKeepsHold /\ ReleasedOnlyByDrop /\ HeldStaysBlocked]_vars

\* The Host waits; a handle kept after Cancelled and an idle clone of it are
\* both still held.
C19_Witness ==
    /\ hpc = "waiting"
    /\ \E s, t \in Snaps :
          /\ Live(s) /\ snap[s].res.kind = "Cancelled"
          /\ Live(t) /\ snap[t].parent = s /\ snap[t].pc = "idle"

====
